---------------------------- MODULE Spec2Model ----------------------------
(***************************************************************************)
(* A model of app.py, the portfolio builder: the text helpers slugify and  *)
(* make_list, the block sequence that generate hands to the PDF renderer,  *)
(* and the generate and download handlers working on the output directory. *)
(*                                                                         *)
(* A Python str is a sequence of characters; a character is a string of    *)
(* length one ("a", " ", "\n"), except the bullet glyph U+2022, which the  *)
(* module's character set cannot spell and which is the token BULLET.      *)
(***************************************************************************)
EXTENDS Naturals, Sequences, FiniteSets

VARIABLES
    text,            \* the argument of the helper under call
    prefer_newline,  \* make_list's flag
    called,          \* which helper has returned ("none" before the call)
    ret,             \* what it returned
    form,            \* request.form of the request being assembled
    elements,        \* the block list handed to doc.build
    storage,         \* OUTPUT_DIR: filename -> stored bytes
    response,        \* the last response a handler returned
    request,         \* the last request handled
    clock,           \* the wall clock the renderer stamps documents with
    generated,       \* filenames that finished generate requests returned
    repeated,        \* whether the last two requests were the same generate
    writer,          \* concurrent requests: the one that wrote last
    pc,              \* concurrent requests: position of each in generate
    local            \* concurrent requests: what each holds in its locals

vars == <<text, prefer_newline, called, ret, form, elements,
          storage, response, request, clock, generated, repeated, writer,
          pc, local>>

-----------------------------------------------------------------------------
(* Characters *)

BULLET == "U+2022"

\* str.isspace() on the characters the model draws from
Whitespace == {" ", "\t", "\n", "\r", "\f"}

Letters ==
    {"a","b","c","d","e","f","g","h","i","j","k","l","m",
     "n","o","p","q","r","s","t","u","v","w","x","y","z",
     "A","B","C","D","E","F","G","H","I","J","K","L","M",
     "N","O","P","Q","R","S","T","U","V","W","X","Y","Z"}

Digits == {"0","1","2","3","4","5","6","7","8","9"}

\* the regular expression class \w
WordChars == Letters \cup Digits \cup {"_"}

\* the characters re.sub(r"(?u)[^-\w.]", "", text) keeps
SlugChars == WordChars \cup {"-", "."}

-----------------------------------------------------------------------------
(* str methods and re functions, as the helpers use them *)

\* text.strip()
strip(s) ==
    LET keep == {i \in 1..Len(s) : s[i] \notin Whitespace}
    IN  IF keep = {} THEN <<>>
        ELSE LET lo == CHOOSE i \in keep : \A j \in keep : i <= j
                 hi == CHOOSE i \in keep : \A j \in keep : j <= i
             IN  SubSeq(s, lo, hi)

\* text.replace(old, new) for a one-character old
RECURSIVE replace(_, _, _)
replace(s, old, new) ==
    IF s = <<>> THEN <<>>
    ELSE (IF Head(s) = old THEN new ELSE <<Head(s)>>)
         \o replace(Tail(s), old, new)

\* sep in text
contains(s, sep) == \E i \in 1..Len(s) : s[i] = sep

\* text.split(sep) for a one-character sep: every occurrence splits, and
\* empty pieces are kept
RECURSIVE split(_, _)
split(s, sep) ==
    IF ~contains(s, sep) THEN <<s>>
    ELSE LET k == CHOOSE i \in 1..Len(s) :
                    s[i] = sep /\ \A j \in 1..(i-1) : s[j] # sep
         IN  <<SubSeq(s, 1, k-1)>> \o split(SubSeq(s, k+1, Len(s)), sep)

\* the length of the longest prefix of s made of characters of seps
RECURSIVE run(_, _)
run(s, seps) ==
    IF s # <<>> /\ Head(s) \in seps THEN 1 + run(Tail(s), seps) ELSE 0

\* re.split(r"[,\n]+", text): each maximal run of separators splits once;
\* a run at either end leaves an empty piece there
RECURSIVE re_split(_)
re_split(s) ==
    LET seps == {",", "\n"}
    IN  IF \A i \in 1..Len(s) : s[i] \notin seps THEN <<s>>
        ELSE LET k == CHOOSE i \in 1..Len(s) :
                        s[i] \in seps /\ \A j \in 1..(i-1) : s[j] \notin seps
                 n == run(SubSeq(s, k, Len(s)), seps)
             IN  <<SubSeq(s, 1, k-1)>> \o re_split(SubSeq(s, k+n, Len(s)))

\* [p.strip() for p in parts]
strip_each(parts) == [i \in 1..Len(parts) |-> strip(parts[i])]

\* sep.join(parts)
RECURSIVE join(_, _)
join(sep, parts) ==
    IF parts = <<>> THEN <<>>
    ELSE IF Len(parts) = 1 THEN parts[1]
    ELSE parts[1] \o sep \o join(sep, Tail(parts))

-----------------------------------------------------------------------------
(* The helpers *)

portfolio == <<"p","o","r","t","f","o","l","i","o">>

\* slugify without the strip: the spaces around the name become underscores
slugify_unstripped(t) ==
    LET t1 == replace(t, " ", <<"_">>)
        t2 == SelectSeq(t1, LAMBDA c : c \in SlugChars)
    IN  IF t2 # <<>> THEN t2 ELSE portfolio

slugify(t) ==
    LET t1 == replace(strip(t), " ", <<"_">>)
        t2 == SelectSeq(t1, LAMBDA c : c \in SlugChars)
    IN  IF t2 # <<>> THEN t2 ELSE portfolio

\* make_list keeping every non-empty piece (len(p) > 0)
make_list_keeps_short(t, prefer) ==
    IF t = <<>> THEN <<>>
    ELSE LET t1    == strip(replace(t, "\r", <<>>))
             parts == IF prefer /\ contains(t1, "\n")
                      THEN strip_each(split(t1, "\n"))
                      ELSE strip_each(re_split(t1))
         IN  SelectSeq(parts, LAMBDA p : p # <<>>)

\* make_list looking for the line break before it trims the text
make_list_tests_raw(t, prefer) ==
    IF t = <<>> THEN <<>>
    ELSE LET t1    == strip(replace(t, "\r", <<>>))
             parts == IF prefer /\ contains(t, "\n")
                      THEN strip_each(split(t1, "\n"))
                      ELSE strip_each(re_split(t1))
         IN  SelectSeq(parts, LAMBDA p : p # <<>> /\ Len(p) > 1)

make_list(t, prefer) ==
    IF t = <<>> THEN <<>>
    ELSE LET t1    == strip(replace(t, "\r", <<>>))
             parts == IF prefer /\ contains(t1, "\n")
                      THEN strip_each(split(t1, "\n"))
                      ELSE strip_each(re_split(t1))
         IN  SelectSeq(parts, LAMBDA p : p # <<>> /\ Len(p) > 1)

-----------------------------------------------------------------------------
(* generate: the profile record, the filename and the block list *)

YourName       == <<"Y","o","u","r"," ","N","a","m","e">>
Dash           == <<"-">>
pdf            == <<".","p","d","f">>
AboutMe        == <<"A","b","o","u","t"," ","M","e">>
Skills         == <<"S","k","i","l","l","s">>
Education      == <<"E","d","u","c","a","t","i","o","n">>
Projects       == <<"P","r","o","j","e","c","t","s">>
Certifications == <<"C","e","r","t","i","f","i","c","a","t","i","o","n","s">>
Achievements   == <<"A","c","h","i","e","v","e","m","e","n","t","s">>
Interests      == <<"I","n","t","e","r","e","s","t","s">>
EmailLabel     == <<"E","m","a","i","l",":"," ">>
PhoneLabel     == <<"P","h","o","n","e",":"," ">>
LinkedInLabel  == <<"L","i","n","k","e","d","I","n",":"," ">>
GitHubLabel    == <<"G","i","t","H","u","b",":"," ">>
WebsiteLabel   == <<"W","e","b","s","i","t","e",":"," ">>
Bar            == <<" ","|"," ">>

\* request.form.get(k, "")
get(f, k) == IF k \in DOMAIN f THEN f[k] ELSE <<>>

\* x or y, on strings and lists
Or(x, y) == IF x # <<>> THEN x ELSE y

\* the dict generate builds from the form
BuildData(f) ==
    [name           |-> strip(get(f, "name")),
     email          |-> strip(get(f, "email")),
     phone          |-> strip(get(f, "phone")),
     linkedin       |-> strip(get(f, "linkedin")),
     github         |-> strip(get(f, "github")),
     website        |-> strip(get(f, "website")),
     about          |-> strip(get(f, "about")),
     skills         |-> make_list(get(f, "skills"), TRUE),
     education      |-> strip(get(f, "education")),
     projects       |-> make_list(get(f, "projects"), TRUE),
     certifications |-> make_list(get(f, "certifications"), TRUE),
     achievements   |-> make_list(get(f, "achievements"), TRUE),
     interests      |-> make_list(get(f, "interests"), TRUE)]

\* the filename without the slugify call
Filename_raw(data) == Or(data.name, portfolio) \o pdf

\* the filename made unique with the time of the request
Filename_stamped(data) ==
    slugify(Or(data.name, portfolio)) \o <<"-", "t", clock>> \o pdf

\* f"{slugify(data['name'] or 'portfolio')}.pdf"
Filename(data) == slugify(Or(data.name, portfolio)) \o pdf

Paragraph(t, style) == [type |-> "Paragraph", text |-> t, style |-> style]

\* Table([[""]], colWidths=[doc.width], style=[("LINEBELOW", ...)])
Divider == [type |-> "Table", cells |-> <<<< <<>> >>>>, style |-> "LINEBELOW"]

Spacer(w, h) == [type |-> "Spacer", width |-> w, height |-> h]

\* contact_parts with the GitHub test placed before the LinkedIn test
ContactParts_github_first(data) ==
       (IF data.email    # <<>> THEN <<EmailLabel \o data.email>>       ELSE <<>>)
    \o (IF data.phone    # <<>> THEN <<PhoneLabel \o data.phone>>       ELSE <<>>)
    \o (IF data.github   # <<>> THEN <<GitHubLabel \o data.github>>     ELSE <<>>)
    \o (IF data.linkedin # <<>> THEN <<LinkedInLabel \o data.linkedin>> ELSE <<>>)
    \o (IF data.website  # <<>> THEN <<WebsiteLabel \o data.website>>   ELSE <<>>)

\* the header's contact_parts
ContactParts(data) ==
       (IF data.email    # <<>> THEN <<EmailLabel \o data.email>>       ELSE <<>>)
    \o (IF data.phone    # <<>> THEN <<PhoneLabel \o data.phone>>       ELSE <<>>)
    \o (IF data.linkedin # <<>> THEN <<LinkedInLabel \o data.linkedin>> ELSE <<>>)
    \o (IF data.github   # <<>> THEN <<GitHubLabel \o data.github>>     ELSE <<>>)
    \o (IF data.website  # <<>> THEN <<WebsiteLabel \o data.website>>   ELSE <<>>)

\* Paragraph(f"(bullet) {item}", normal)
Bullet(item) == Paragraph(<<BULLET, " ">> \o item, "normal")

\* a scalar section: the heading, then the text or "-"
ScalarSection(title, t) ==
    <<Paragraph(title, "heading"), Paragraph(Or(t, Dash), "normal")>>

\* a list section without the else branch: an empty list gets no "-"
ListSection_no_placeholder(title, items) ==
    <<Paragraph(title, "heading")>>
    \o [i \in 1..Len(items) |-> Bullet(items[i])]

\* a list section: the heading, then one bullet per item, or "-"
ListSection(title, items) ==
    <<Paragraph(title, "heading")>>
    \o (IF items # <<>> THEN [i \in 1..Len(items) |-> Bullet(items[i])]
        ELSE <<Paragraph(Dash, "normal")>>)

\* the list called elements, as generate has appended to it at doc.build
Elements(data) ==
    LET contact_parts == ContactParts(data)
    IN     <<Paragraph(Or(data.name, YourName), "title")>>
        \o (IF contact_parts # <<>>
            THEN <<Paragraph(join(Bar, contact_parts), "normal")>>
            ELSE <<>>)
        \o <<Divider, Spacer(1, 8)>>
        \o ScalarSection(AboutMe, data.about)
        \o ListSection(Skills, data.skills)
        \o ScalarSection(Education, data.education)
        \o ListSection(Projects, data.projects)
        \o ListSection(Certifications, data.certifications)
        \o ListSection(Achievements, data.achievements)
        \o ListSection(Interests, data.interests)

-----------------------------------------------------------------------------
(* Inputs *)

MaxListLen == 5
MaxSlugLen == 4

\* every string over alphabet A of length at most n
Strings(A, n) == UNION {[1..k -> A] : k \in 0..n}

ListAlphabet == {"a", "b", " ", ",", "\n", "\r"}
SlugAlphabet == {"a", " ", "\n", "!", "/", ".", "-", "_"}

\* the texts of the documented examples
DataAnalytics == <<"D","a","t","a"," ","A","n","a","l","y","t","i","c","s",","," ","W","e","b"," ","D","e","v","e","l","o","p","m","e","n","t">>
PythonGoRust  == <<"P","y","t","h","o","n","\n","G","o","\n","\n","R","u","s","t">>
JaneDoe   == <<" "," ","J","a","n","e"," ","D","o","e","!","!"," ">>
Jane_Doe  == <<"J","a","n","e","_","D","o","e">>
Questions == <<"?","?","?">>

ListTexts == Strings(ListAlphabet, MaxListLen) \cup {DataAnalytics, PythonGoRust}
SlugTexts == Strings(SlugAlphabet, MaxSlugLen) \cup {JaneDoe, Questions}

ListFields == {"skills", "projects", "certifications", "achievements",
               "interests"}

NoForm == [k \in {} |-> <<>>]

-----------------------------------------------------------------------------
(* The helpers called on every text of a bounded set *)

Idle ==
    /\ elements = <<>>
    /\ storage = [f \in {} |-> <<>>]
    /\ response = [kind |-> "none"]
    /\ request = [op |-> "none"]
    /\ clock = 0
    /\ generated = {}
    /\ repeated = FALSE
    /\ writer = 0
    /\ pc = <<>>
    /\ local = <<>>

InitList ==
    /\ text \in ListTexts
    /\ prefer_newline = FALSE
    /\ called = "none"
    /\ ret = <<>>
    /\ form = NoForm
    /\ Idle

\* make_list(text, prefer_newline) with either flag
CallMakeList ==
    /\ called = "none"
    /\ \E p \in BOOLEAN :
          /\ prefer_newline' = p
          /\ ret' = make_list(text, p)
    /\ called' = "make_list"
    /\ UNCHANGED <<text, form, elements, storage, response, request, clock,
                   generated, repeated, writer, pc, local>>

\* generate's record for a form whose only field is a list field holding text
CallBuildData ==
    /\ called = "none"
    /\ \E k \in ListFields :
          /\ form' = [f \in {k} |-> text]
          /\ ret' = BuildData(form')
    /\ called' = "generate"
    /\ UNCHANGED <<text, prefer_newline, elements, storage, response, request,
                   clock, generated, repeated, writer, pc, local>>

NextList == CallMakeList \/ CallBuildData

SpecList == InitList /\ [][NextList]_vars

InitSlug ==
    /\ text \in SlugTexts
    /\ prefer_newline = FALSE
    /\ called = "none"
    /\ ret = <<>>
    /\ form = NoForm
    /\ Idle

\* slugify(text)
CallSlugify ==
    /\ called = "none"
    /\ ret' = slugify(text)
    /\ called' = "slugify"
    /\ UNCHANGED <<text, prefer_newline, form, elements, storage, response,
                   request, clock, generated, repeated, writer, pc, local>>

\* the filename generate derives from a form whose name is text
CallFilename ==
    /\ called = "none"
    /\ form' = [f \in {"name"} |-> text]
    /\ ret' = Filename(BuildData(form'))
    /\ called' = "filename"
    /\ UNCHANGED <<text, prefer_newline, elements, storage, response, request,
                   clock, generated, repeated, writer, pc, local>>

NextSlug == CallSlugify \/ CallFilename

SpecSlug == InitSlug /\ [][NextSlug]_vars

-----------------------------------------------------------------------------
(* C1 *)

ItemOK(p) ==
    /\ Len(p) >= 2
    /\ p[1] \notin Whitespace
    /\ p[Len(p)] \notin Whitespace

\* C1: every item make_list returns, for any text and either flag, has
\* length at least 2 and neither starts nor ends with whitespace; so every
\* list field of the record generate builds holds only such items (no empty
\* string, no single character).
C1_ItemsClean ==
    /\ called = "make_list" => \A i \in 1..Len(ret) : ItemOK(ret[i])
    /\ called = "generate" =>
          \A k \in ListFields : \A i \in 1..Len(ret[k]) : ItemOK(ret[k][i])

\* a text with leading whitespace and a one-character piece gave a record
\* whose list field kept an item
C1_Witness ==
    /\ called = "generate"
    /\ text # <<>> /\ Head(text) \in Whitespace
    /\ \E k \in ListFields :
          /\ ret[k] # <<>>
          /\ Len(ret[k][1]) + 3 <= Len(text)

-----------------------------------------------------------------------------
(* C2 *)

\* the maximal runs of s holding no character of seps, in order
Fields(s, seps) ==
    LET starts == {i \in 1..Len(s) :
                     s[i] \notin seps /\ (i = 1 \/ s[i-1] \in seps)}
        nth(n) == CHOOSE i \in starts :
                     Cardinality({j \in starts : j < i}) = n - 1
        last(i) == CHOOSE j \in i..Len(s) :
                     /\ \A k \in i..j : s[k] \notin seps
                     /\ j = Len(s) \/ s[j+1] \in seps
    IN  [n \in 1..Cardinality(starts) |-> SubSeq(s, nth(n), last(nth(n)))]

\* the text make_list splits: carriage returns dropped, then trimmed
Cleaned(t) == strip(SelectSeq(t, LAMBDA c : c # "\r"))

\* the items the claim expects: the fields between separators, each
\* trimmed, those of length 2 or more kept in order
Expected(t, lines) ==
    LET seps == IF lines THEN {"\n"} ELSE {",", "\n"}
        fs   == Fields(Cleaned(t), seps)
        tr   == [n \in 1..Len(fs) |-> strip(fs[n])]
    IN  SelectSeq(tr, LAMBDA p : Len(p) >= 2)

\* C2, as stated: line-only splitting whenever the flag is set and the input
\* text contains a line break, otherwise splitting at every run of commas
\* and line breaks; items in input order.
C2_AsStated ==
    called = "make_list" =>
        ret = Expected(text, prefer_newline /\ contains(text, "\n"))

\* C2, amended: line-only splitting whenever the flag is set and the text
\* still contains a line break once carriage returns are removed and the
\* surrounding whitespace is trimmed; otherwise splitting at every maximal
\* run of commas and line breaks. The kept items are in input order, and the
\* two examples of the claim come out as stated.
C2_SplitStrategy ==
    /\ called = "make_list" =>
          ret = Expected(text, prefer_newline /\ contains(Cleaned(text), "\n"))
    /\ called = "make_list" /\ text = DataAnalytics /\ ~prefer_newline =>
          ret = << <<"D","a","t","a"," ","A","n","a","l","y","t","i","c","s">>,
               <<"W","e","b"," ","D","e","v","e","l","o","p","m","e","n","t">> >>
    /\ called = "make_list" /\ text = PythonGoRust /\ prefer_newline =>
          ret = << <<"P","y","t","h","o","n">>, <<"G","o">>, <<"R","u","s","t">> >>

\* with the flag set, a text with an inner line break and a comma gave one
\* item that holds the comma
C2_Witness ==
    /\ called = "make_list"
    /\ prefer_newline
    /\ Len(ret) = 1
    /\ contains(ret[1], ",")
    /\ contains(Cleaned(text), "\n")

-----------------------------------------------------------------------------
(* C3 *)

\* the trimmed name with the disallowed characters dropped and the spaces
\* left turned into underscores
Token(t) ==
    LET kept == SelectSeq(strip(t), LAMBDA c : c = " " \/ c \in SlugChars)
    IN  [i \in 1..Len(kept) |-> IF kept[i] = " " THEN "_" ELSE kept[i]]

\* C3: slugify returns a non-empty token of word characters, hyphens,
\* underscores and periods only (no space, no path separator): the trimmed
\* name with spaces replaced by underscores and the other disallowed
\* characters removed, or "portfolio" when nothing remains.
C3_Slug ==
    /\ called = "slugify" =>
          /\ ret # <<>>
          /\ \A i \in 1..Len(ret) :
                ret[i] \in SlugChars /\ ret[i] \notin {" ", "/", "\\"}
          /\ ret = (IF Token(text) = <<>> THEN portfolio ELSE Token(text))
    /\ called = "slugify" /\ text = JaneDoe => ret = Jane_Doe
    /\ called = "slugify" /\ text = Questions => ret = portfolio

\* a name with an inner space and a disallowed character got a token with
\* the underscore and without the character
C3_Witness ==
    /\ called = "slugify"
    /\ ~contains(text, "_")
    /\ contains(ret, "_")
    /\ \E i \in 1..Len(text) : text[i] \in {"!", "/"}
    /\ Head(text) = " "

-----------------------------------------------------------------------------
(* generate's block list for every form of a bounded set *)

\* the forms: each field empty, blank, or a short text with spaces to trim;
\* list texts with commas, line breaks and one-character pieces
DocForms ==
    [name           : {<<>>, <<" ">>, <<" ","J","o"," ">>},
     email          : {<<>>, <<" ","e"," ">>},
     phone          : {<<>>, <<"1">>},
     linkedin       : {<<>>, <<"l","i">>},
     github         : {<<>>, <<"\n">>, <<"g","h">>},
     website        : {<<>>, <<"w">>},
     about          : {<<>>, <<" ","h","i"," ">>},
     skills         : {<<>>, <<"C">>, <<"a","b",",","c","d">>, <<"a","b",","," ","c","\n","c","d">>},
     education      : {<<>>, <<"B","S">>},
     projects       : {<<>>, <<"p","1","\n","p","2">>},
     certifications : {<<>>, <<"x","y">>},
     achievements   : {<<>>, <<"a",",","b">>},
     interests      : {<<>>, <<"g","o",","," ","t","e","a">>}]
    \cup {NoForm}

InitDoc ==
    /\ form \in DocForms
    /\ text = <<>>
    /\ prefer_newline = FALSE
    /\ called = "none"
    /\ ret = <<>>
    /\ Idle

\* generate up to doc.build: data, then elements
Assemble ==
    /\ called = "none"
    /\ ret' = BuildData(form)
    /\ elements' = Elements(ret')
    /\ called' = "generate"
    /\ UNCHANGED <<text, prefer_newline, form, storage, response, request,
                   clock, generated, repeated, writer, pc, local>>

NextDoc == Assemble

SpecDoc == InitDoc /\ [][NextDoc]_vars

-----------------------------------------------------------------------------
(* C4 *)

\* the fixed sections: heading, form field, list-shaped or not
Sections ==
    << [title |-> AboutMe,        field |-> "about",          list |-> FALSE],
       [title |-> Skills,         field |-> "skills",         list |-> TRUE],
       [title |-> Education,      field |-> "education",      list |-> FALSE],
       [title |-> Projects,       field |-> "projects",       list |-> TRUE],
       [title |-> Certifications, field |-> "certifications", list |-> TRUE],
       [title |-> Achievements,   field |-> "achievements",   list |-> TRUE],
       [title |-> Interests,      field |-> "interests",      list |-> TRUE] >>

IsHeading(b) == b.type = "Paragraph" /\ b.style = "heading"
IsBody(b, t) == b.type = "Paragraph" /\ b.style = "normal" /\ b.text = t

\* the positions of the heading blocks of es
Headings(es) == {i \in 1..Len(es) : IsHeading(es[i])}

\* the position of the n-th heading of es
HeadingAt(es, n) ==
    CHOOSE i \in Headings(es) :
        Cardinality({j \in Headings(es) : j < i}) = n - 1

\* the blocks of es between the n-th heading and the next (or the end)
BodyOf(es, n) ==
    LET from == HeadingAt(es, n) + 1
        to   == IF n < Cardinality(Headings(es))
                THEN HeadingAt(es, n + 1) - 1 ELSE Len(es)
    IN  SubSeq(es, from, to)

\* whether body is the body the claim gives section s for form f
RightBody(body, s, f) ==
    IF s.list
    THEN LET items == make_list(get(f, s.field), TRUE)
         IN  IF items = <<>>
             THEN Len(body) = 1 /\ IsBody(body[1], Dash)
             ELSE /\ Len(body) = Len(items)
                  /\ \A j \in 1..Len(items) :
                        IsBody(body[j], <<BULLET, " ">> \o items[j])
    ELSE LET t == strip(get(f, s.field))
         IN  Len(body) = 1 /\ IsBody(body[1], IF t = <<>> THEN Dash ELSE t)

\* C4: for every form, the all-empty one included, the block sequence
\* starts with the Title block (the name, or "Your Name"), holds the one
\* Divider before the first heading, and then the seven section headings
\* once each in the fixed order, each directly followed by its body: one
\* bullet per normalized entry in order or a single "-" for a list section,
\* the trimmed text or "-" for About Me and Education. It is never empty.
C4_Sections ==
    called = "generate" =>
        LET es == elements
            nm == strip(get(form, "name"))
            tables == {i \in 1..Len(es) : es[i].type = "Table"}
        IN  /\ es # <<>>
            /\ es[1] = [type |-> "Paragraph", style |-> "title",
                        text |-> IF nm = <<>> THEN YourName ELSE nm]
            /\ Cardinality(tables) = 1
            /\ Cardinality(Headings(es)) = Len(Sections)
            /\ \A i \in tables : i > 1 /\ i < HeadingAt(es, 1)
            /\ \A n \in 1..Len(Sections) :
                  /\ es[HeadingAt(es, n)].text = Sections[n].title
                  /\ RightBody(BodyOf(es, n), Sections[n], form)

\* a form with no name, two skills kept, and an achievements text that
\* normalizes to nothing
C4_Witness ==
    /\ called = "generate"
    /\ ret.name = <<>>
    /\ Len(ret.skills) = 2
    /\ get(form, "achievements") # <<>> /\ ret.achievements = <<>>
    /\ get(form, "about") # <<>>

-----------------------------------------------------------------------------
(* C5 *)

ContactOrder == <<"email", "phone", "linkedin", "github", "website">>

ContactLabel(k) ==
    CASE k = "email"    -> EmailLabel
      [] k = "phone"    -> PhoneLabel
      [] k = "linkedin" -> LinkedInLabel
      [] k = "github"   -> GitHubLabel
      [] k = "website"  -> WebsiteLabel

\* the labelled non-blank fields among ks, in that order, with bars between
RECURSIVE ContactText(_, _)
ContactText(ks, f) ==
    IF ks = <<>> THEN <<>>
    ELSE LET v    == strip(get(f, Head(ks)))
             rest == ContactText(Tail(ks), f)
         IN  IF v = <<>> THEN rest
             ELSE ContactLabel(Head(ks)) \o v
                  \o (IF rest = <<>> THEN <<>> ELSE Bar \o rest)

\* C5: the contact line is present exactly when one of email, phone,
\* linkedin, github, website is non-empty after trimming; it is then the
\* single block between the Title and the Divider, and its text is the
\* non-empty fields in the order Email, Phone, LinkedIn, GitHub, Website,
\* each after its label, joined by " | ".
C5_ContactLine ==
    called = "generate" =>
        LET any == \E i \in 1..Len(ContactOrder) :
                      strip(get(form, ContactOrder[i])) # <<>>
        IN  IF any
            THEN /\ elements[2] = [type |-> "Paragraph", style |-> "normal",
                                   text |-> ContactText(ContactOrder, form)]
                 /\ elements[3].type = "Table"
            ELSE elements[2].type = "Table"

\* email, linkedin, github and website given, phone left out
C5_Witness ==
    /\ called = "generate"
    /\ ret.email # <<>> /\ get(form, "email") # ret.email
    /\ ret.phone = <<>>
    /\ ret.linkedin # <<>>
    /\ ret.github # <<>>
    /\ ret.website # <<>>
    /\ elements[3].type = "Table"

-----------------------------------------------------------------------------
(* The output directory and the renderer *)

OUTPUT_DIR == <<"g","e","n","e","r","a","t","e","d","_","p","o","r","t","f","o","l","i","o","s">>

\* os.path.join(a, b)
path_join(a, b) ==
    IF b # <<>> /\ Head(b) = "/" THEN b ELSE a \o <<"/">> \o b

\* pdf_path of generate
PdfPath(filename) == path_join(OUTPUT_DIR, filename)

\* download looking for the file without the directory
DownloadPath_bare(filename) == filename

\* filepath of download
DownloadPath(filename) == path_join(OUTPUT_DIR, filename)

\* The bytes doc.build(elements) produces at time now. SimpleDocTemplate is
\* built without invariant=1, so the renderer stamps the document with its
\* creation time (and an ID derived from it); the rest of the bytes is laid
\* out from the blocks alone. A document is the stamp followed by the blocks.
render(es, now) == <<[type |-> "Info", CreationDate |-> now]>> \o es

\* open(path, "wb"): the file exists and is empty
Open(fs, path) ==
    [p \in DOMAIN fs \cup {path} |-> IF p = path THEN <<>> ELSE fs[p]]

\* f.write(bytes) at offset 0 of the open file, then f.close(): bytes
\* replace the start of the file, what lies beyond them stays
WriteAt0(fs, path, bytes) ==
    [p \in DOMAIN fs \cup {path} |->
        IF p # path THEN fs[p]
        ELSE IF p \in DOMAIN fs
             THEN bytes \o SubSeq(fs[p], Len(bytes) + 1, Len(fs[p]))
             ELSE bytes]

-----------------------------------------------------------------------------
(* The handlers, one request at a time *)

MaxClock == 1

\* the forms posted to /generate: names that sanitize to two tokens, two
\* names for each, with and without skills and email
Forms ==
    [name   : {<<>>, <<"?">>, <<"a"," ","b">>, <<"a","_","b">>},
     skills : {<<>>, <<"a","b",",","c","d">>},
     email  : {<<>>, <<"e">>}]

a_b_pdf          == <<"a","_","b",".","p","d","f">>
portfolio_pdf    == <<"p","o","r","t","f","o","l","i","o",".","p","d","f">>
doesnotexist_pdf == <<"d","o","e","s","n","o","t","e","x","i","s","t",".","p","d","f">>

\* the filenames asked of /download
DownloadNames == {a_b_pdf, portfolio_pdf, doesnotexist_pdf}

Init ==
    /\ text = <<>>
    /\ prefer_newline = FALSE
    /\ called = "none"
    /\ ret = <<>>
    /\ form = NoForm
    /\ elements = <<>>
    /\ storage = [p \in {} |-> <<>>]
    /\ response = [kind |-> "none"]
    /\ request = [op |-> "none"]
    /\ clock = 0
    /\ generated = {}
    /\ repeated = FALSE
    /\ writer = 0
    /\ pc = <<>>
    /\ local = <<>>

\* GET /
Home ==
    /\ request' = [op |-> "home"]
    /\ response' = [kind |-> "html", template |-> "form.html"]
    /\ repeated' = FALSE
    /\ UNCHANGED <<text, prefer_newline, called, ret, form, elements, storage,
                   clock, generated, writer, pc, local>>

\* POST /generate with form f, from the first line to the return
Generate(f) ==
    LET data     == BuildData(f)
        filename == Filename(data)
        pdf_path == PdfPath(filename)
        bytes    == render(Elements(data), clock)
    IN  /\ form' = f
        /\ elements' = Elements(data)
        /\ storage' = WriteAt0(Open(storage, pdf_path), pdf_path, bytes)
        /\ response' = [kind |-> "html", template |-> "portfolio.html",
                        data |-> data, download_link |-> filename]
        /\ request' = [op |-> "generate", form |-> f]
        /\ generated' = generated \cup {filename}
        /\ repeated' = (request = [op |-> "generate", form |-> f])
        /\ UNCHANGED <<text, prefer_newline, called, ret, clock, writer, pc,
                       local>>

\* the not-found result without its status (Flask then answers 200)
NotFound_200 == [kind |-> "text", status |-> 200, body |-> "File not found."]

\* return "File not found.", 404
NotFound == [kind |-> "text", status |-> 404, body |-> "File not found."]

\* GET /download/<filename>
Download(filename) ==
    LET filepath == DownloadPath(filename)
    IN  /\ request' = [op |-> "download", filename |-> filename]
        /\ response' =
              IF filepath \notin DOMAIN storage
              THEN NotFound
              ELSE [kind |-> "file", status |-> 200, as_attachment |-> TRUE,
                    path |-> filepath, body |-> storage[filepath]]
        /\ repeated' = FALSE
        /\ UNCHANGED <<text, prefer_newline, called, ret, form, elements,
                       storage, clock, generated, writer, pc, local>>

\* time passes between requests
Tick ==
    /\ clock < MaxClock
    /\ clock' = clock + 1
    /\ UNCHANGED <<text, prefer_newline, called, ret, form, elements, storage,
                   response, request, generated, repeated, writer, pc, local>>

Next ==
    \/ Home
    \/ \E f \in Forms : Generate(f)
    \/ \E filename \in DownloadNames : Download(filename)
    \/ Tick

Spec == Init /\ [][Next]_vars

-----------------------------------------------------------------------------
(* C6 *)

\* C6: a download request for a filename that is not on storage returns the
\* not-found result (status 404, the text "File not found.", no file) and
\* leaves storage as it was, whatever storage holds.
C6_NotFound ==
    [][\A filename \in DownloadNames :
          (/\ Download(filename)
           /\ path_join(OUTPUT_DIR, filename) \notin DOMAIN storage)
          => /\ response' = [kind |-> "text", status |-> 404,
                             body |-> "File not found."]
             /\ storage' = storage]_vars

\* a missing file was asked for while storage held a document
C6_Witness ==
    /\ request = [op |-> "download", filename |-> doesnotexist_pdf]
    /\ response.kind = "text" /\ response.status = 404
    /\ DOMAIN storage # {}

-----------------------------------------------------------------------------
(* C7 *)

\* the blocks of a stored document, without the renderer's stamp
Blocks(doc) == Tail(doc)

\* C7, as stated: a second generate with the form of the generate just
\* handled leaves storage byte for byte as the first left it.
C7_AsStated ==
    [][\A f \in Forms :
          (request = [op |-> "generate", form |-> f] /\ Generate(f))
          => storage' = storage]_vars

\* C7, amended: a second generate with the form of the generate just handled
\* writes to the same path and returns the same filename, leaves the set of
\* stored files and every other file as they were, and stores a document
\* with the same blocks in the same order; the stored bytes differ from the
\* first call's at most in the creation stamp the renderer embeds, and are
\* equal when both calls render at the same clock value.
C7_Idempotent ==
    [][\A f \in Forms :
          (request = [op |-> "generate", form |-> f] /\ Generate(f))
          => LET path == path_join(OUTPUT_DIR, response.download_link)
             IN  /\ response'.download_link = response.download_link
                 /\ DOMAIN storage' = DOMAIN storage
                 /\ \A p \in DOMAIN storage \ {path} : storage'[p] = storage[p]
                 /\ Blocks(storage'[path]) = Blocks(storage[path])
                 /\ storage[path][1].CreationDate = clock
                       => storage' = storage]_vars

\* the same form was generated twice, the second time after the clock moved
C7_Witness ==
    /\ repeated
    /\ request.op = "generate"
    /\ clock > 0
    /\ storage[path_join(OUTPUT_DIR, response.download_link)][1].CreationDate
          = clock

-----------------------------------------------------------------------------
(* C8 *)

\* C8: a filename that a finished generate request returned stays on
\* storage, and a download request for it returns the file as an attachment,
\* never the not-found result, whatever generate and download requests were
\* handled in between.
C8_Persists ==
    /\ \A filename \in generated :
          path_join(OUTPUT_DIR, filename) \in DOMAIN storage
    /\ request.op = "download" /\ request.filename \in generated
          => /\ response.kind = "file"
             /\ response.status = 200
             /\ response.as_attachment
             /\ response.path = path_join(OUTPUT_DIR, request.filename)

\* a generated file was downloaded after another file had been generated
\* and the clock had moved on
C8_Witness ==
    /\ request.op = "download"
    /\ request.filename \in generated
    /\ Cardinality(generated) = 2
    /\ response.kind = "file"
    /\ response.body[1].CreationDate < clock

-----------------------------------------------------------------------------
(* C10 *)

\* C10: a generate request writes one storage entry, the file named
\* slugify(name) + ".pdf" directly in the output directory ("portfolio.pdf"
\* when the trimmed name is empty or sanitizes to nothing); the name depends
\* on the name field alone, every other stored file stays as it was, and
\* the confirmation returns the filename written.
C10_OneEntry ==
    [][\A f \in Forms :
          Generate(f)
          => LET link   == response'.download_link
                 target == OUTPUT_DIR \o <<"/">> \o link
             IN  /\ link = slugify(get(f, "name")) \o pdf
                 /\ Token(get(f, "name")) = <<>> => link = portfolio_pdf
                 /\ ~contains(link, "/")
                 /\ target \in DOMAIN storage'
                 /\ storage'[target] = render(elements', clock)
                 /\ DOMAIN storage' = DOMAIN storage \cup {target}
                 /\ \A p \in DOMAIN storage \ {target} :
                       storage'[p] = storage[p]]_vars

\* a name that sanitizes to nothing was generated, with skills, beside
\* another stored file
C10_Witness ==
    /\ request.op = "generate"
    /\ request.form.name # <<>>
    /\ request.form.skills # <<>>
    /\ response.download_link = portfolio_pdf
    /\ Cardinality(DOMAIN storage) = 2

-----------------------------------------------------------------------------
(* generate requests handled concurrently (the server runs one thread per  *)
(* request; nothing in generate locks the output file)                     *)

Requests == {1, 2}

InitConc ==
    /\ text = <<>>
    /\ prefer_newline = FALSE
    /\ called = "none"
    /\ ret = <<>>
    /\ form = NoForm
    /\ elements = <<>>
    /\ storage = [p \in {} |-> <<>>]
    /\ response = [kind |-> "none"]
    /\ request = [op |-> "none"]
    /\ clock = 0
    /\ generated = {}
    /\ repeated = FALSE
    /\ writer = 0
    /\ pc = [r \in Requests |-> "idle"]
    /\ local = [r \in Requests |-> [form |-> NoForm]]

\* request r arrives with form f and runs generate up to doc.build
Begin(r, f) ==
    /\ pc[r] = "idle"
    /\ LET data == BuildData(f)
       IN  local' = [local EXCEPT ![r] =
                        [form     |-> f,
                         data     |-> data,
                         filename |-> Filename(data),
                         pdf_path |-> PdfPath(Filename(data)),
                         elements |-> Elements(data)]]
    /\ pc' = [pc EXCEPT ![r] = "build"]
    /\ UNCHANGED <<text, prefer_newline, called, ret, form, elements, storage,
                   response, request, clock, generated, repeated, writer>>

\* doc.build, first half: the document is rendered and the file opened
BuildOpen(r) ==
    /\ pc[r] = "build"
    /\ local' = [local EXCEPT ![r] =
                    [form     |-> local[r].form,
                     data     |-> local[r].data,
                     filename |-> local[r].filename,
                     pdf_path |-> local[r].pdf_path,
                     elements |-> local[r].elements,
                     bytes    |-> render(local[r].elements, clock)]]
    /\ storage' = Open(storage, local[r].pdf_path)
    /\ pc' = [pc EXCEPT ![r] = "save"]
    /\ UNCHANGED <<text, prefer_newline, called, ret, form, elements, response,
                   request, clock, generated, repeated, writer>>

\* doc.build, second half: the bytes are written and the file closed
BuildWrite(r) ==
    /\ pc[r] = "save"
    /\ storage' = WriteAt0(storage, local[r].pdf_path, local[r].bytes)
    /\ writer' = r
    /\ pc' = [pc EXCEPT ![r] = "return"]
    /\ UNCHANGED <<text, prefer_newline, called, ret, form, elements, response,
                   request, clock, generated, repeated, local>>

\* return render_template("portfolio.html", ...)
Return(r) ==
    /\ pc[r] = "return"
    /\ local' = [local EXCEPT ![r] =
                    [form     |-> local[r].form,
                     data     |-> local[r].data,
                     filename |-> local[r].filename,
                     pdf_path |-> local[r].pdf_path,
                     elements |-> local[r].elements,
                     bytes    |-> local[r].bytes,
                     response |-> [kind |-> "html",
                                   template |-> "portfolio.html",
                                   data |-> local[r].data,
                                   download_link |-> local[r].filename]]]
    /\ generated' = generated \cup {local[r].filename}
    /\ pc' = [pc EXCEPT ![r] = "done"]
    /\ UNCHANGED <<text, prefer_newline, called, ret, form, elements, storage,
                   response, request, clock, repeated, writer>>

NextConc ==
    \E r \in Requests :
        \/ \E f \in Forms : Begin(r, f)
        \/ BuildOpen(r)
        \/ BuildWrite(r)
        \/ Return(r)

SpecConc == InitConc /\ [][NextConc]_vars

-----------------------------------------------------------------------------
(* C9 *)

\* C9: when two generate requests with the same filename have both
\* finished, in whatever order their steps ran, the file at the shared path
\* is there and holds the whole document of the request that wrote last,
\* and both confirmations name that file.
C9_LastWriteWins ==
    (/\ \A r \in Requests : pc[r] = "done"
     /\ local[1].filename = local[2].filename)
    => LET path == path_join(OUTPUT_DIR, local[1].filename)
       IN  /\ path \in DOMAIN storage
           /\ storage[path] = local[writer].bytes
           /\ \A r \in Requests :
                 local[r].response.download_link = local[1].filename

=============================================================================
